---------------------------- MODULE Spec2Model ----------------------------
(***************************************************************************)
(* Tutor-booking REST API (src/index.js), with the routes that only the    *)
(* older route set defines (src/unnamed/part_000: PATCH /tutors/review/:id,*)
(* PATCH /bookings/:id, DELETE /bookings/:id).  Where both files define a  *)
(* route, the handler of src/index.js is the one modelled; the older       *)
(* POST /tutors and GET /dashboard/stats are modelled beside it and run    *)
(* only in SpecTutors and SpecStats.                                       *)
(*                                                                         *)
(* A request is a process: it starts (synchronous validation, then the     *)
(* first storage call is issued), and every `await` of a storage call is   *)
(* one step, at which the store applies the operation and the handler runs *)
(* on to its next await or to its response.  Any storage call may instead  *)
(* throw, which takes the handler to its catch block.                      *)
(***************************************************************************)
EXTENDS Integers, FiniteSets, Sequences, TLC

\* ------------------------------------------------------------------ bounds
MaxReqs == 2          \* requests served in one behaviour of Spec
MaxReviewReqs == 3    \* requests served in one behaviour of SpecReview
MaxUserReqs == 2      \* requests served in one behaviour of SpecUsers
MaxTutorReqs == 2     \* requests served in one behaviour of SpecTutors
MaxStatReqs == 2      \* requests served in one behaviour of SpecStats
MaxTutors == 3        \* tutor ids the store ever issues
MaxBookings == 3      \* booking ids the store ever issues
MaxUsers == 3         \* user ids the store ever issues

Larger(a, b) == IF a > b THEN a ELSE b
Reqs ==
  1..Larger(Larger(Larger(MaxReqs, MaxTutorReqs), MaxStatReqs),
            Larger(MaxReviewReqs, MaxUserReqs))
Emails == {"a@x", "b@x"}

\* --------------------------------------------------------- request inputs
\* A string used as an id: one that spells the 24 hex digits of ObjectId n
\* (hex = TRUE), or a malformed one (hex = FALSE).
IdStrings(max) == [hex : {TRUE}, n : 1..max] \cup {[hex |-> FALSE, n |-> 0]}

\* Variant: no id is refused
AnyIdIsValid(id) == TRUE

\* ObjectId.isValid(id)
ObjectIdIsValid(id) == id.hex

\* new ObjectId(id): the identifier the hex string spells
NewObjectId(id) == [oid |-> TRUE, n |-> id.n]

\* A value stored under tutorId that is a plain string, not an ObjectId
\* (what a JSON body can carry): it equals no document's _id.
RawString(k) == [oid |-> FALSE, n |-> k]

\* JavaScript truthiness of a body field: absent (undefined) and "" are falsy
Has(body, f) == f \in DOMAIN body
Truthy(body, f) == Has(body, f) /\ body[f] # ""

\* x || d
OrElse(body, f, d) == IF Truthy(body, f) THEN body[f] ELSE d

\* String.prototype.toLowerCase on the role strings in use
ToLowerCase(s) ==
  CASE s = "Admin" -> "admin"
    [] OTHER -> s

\* A record with field f removed
Without(rec, f) == [g \in DOMAIN rec \ {f} |-> rec[g]]

\* { ...doc, ...fields }: the fields of `fields` written over `doc` ($set)
Merge(doc, fields) ==
  [g \in DOMAIN doc \cup DOMAIN fields |->
     IF g \in DOMAIN fields THEN fields[g] ELSE doc[g]]

\* ------------------------------------------------------------------ state
VARIABLES
  tutorCollection,     \* _id -> tutor document
  bookingCollection,   \* _id -> booking document
  userCollection,      \* _id -> user document
  nextId,              \* per collection, the number of ids issued so far
  reqs                 \* the requests: inputs, position, locals, response

vars == <<tutorCollection, bookingCollection, userCollection, nextId, reqs>>
store == <<tutorCollection, bookingCollection, userCollection, nextId>>

\* The three collections, as one value (for the snapshots a request keeps)
Db == [tutors |-> tutorCollection, bookings |-> bookingCollection,
       users |-> userCollection]

Idle ==
  [pc |-> "idle", route |-> "", id |-> [hex |-> FALSE, n |-> 0], email |-> "",
   body |-> <<>>, loc |-> <<>>, status |-> 0, out |-> <<>>, calls |-> 0,
   failed |-> FALSE, err |-> "", nresp |-> 0, incd |-> 0, doneBefore |-> {},
   pre |-> <<>>, post |-> <<>>]

\* The requests that have responded
Done == {r \in Reqs : reqs[r].pc = "done"}

\* --------------------------------------------------------- store operations
\* collection.insertOne(doc): the store generates the next unused _id
InsertOne(coll, id, doc) ==
  [x \in DOMAIN coll \cup {id} |-> IF x = id THEN doc ELSE coll[x]]

\* collection.deleteOne({_id})
DeleteOne(coll, id) == [x \in DOMAIN coll \ {id} |-> coll[x]]

\* collection.updateOne({_id}, {$set: fields}): no match, no change
UpdateOneSet(coll, id, fields) ==
  IF id \in DOMAIN coll
  THEN [coll EXCEPT ![id] = Merge(@, fields)]
  ELSE coll

\* collection.updateOne({_id: key}, {$inc: {review: 1}}); key is the value the
\* filter carries, which matches a document only if it is that ObjectId
UpdateOneIncReview(coll, key) ==
  IF key.oid /\ key.n \in DOMAIN coll
  THEN [coll EXCEPT ![key.n].review = @ + 1]
  ELSE coll

\* result.matchedCount of an update (or deletedCount of a delete) by _id
MatchedCount(coll, id) == IF id \in DOMAIN coll THEN 1 ELSE 0

\* A stored document as a query returns it: with its _id
Doc(coll, id) == Merge(coll[id], [_id |-> id])

\* collection.find().toArray()
FindAll(coll) == {Doc(coll, id) : id \in DOMAIN coll}

\* Variant: no unique index
DuplicateKeyNever(coll, email) == FALSE

\* The unique index on users.email: an insert of an email some document
\* already has is refused (duplicate key error)
DuplicateKey(coll, email) == \E u \in DOMAIN coll : coll[u].email = email

\* ---------------------------------------------------------- a handler's steps
\* The handler of request r starts on inputs (route, id, email, body)
Begin(r, route, id, email, body) ==
  [Idle EXCEPT !.pc = "start", !.route = route, !.id = id, !.email = email,
               !.body = body, !.doneBefore = Done, !.pre = Db]

\* await of a storage call: the call is issued, the handler suspends at `label`
Await(q, label) == [q EXCEPT !.pc = label, !.calls = @ + 1]

\* res.status(status).send(out)
Send(q, status, out, db) ==
  [q EXCEPT !.pc = "done", !.status = status, !.out = out, !.nresp = @ + 1,
            !.post = db]

\* catch (error): the awaited storage call threw `err`
Catch(q, err) == [q EXCEPT !.failed = TRUE, !.err = err]

\* Requests start in the order of their numbers
CanStart(r) ==
  /\ reqs[r].pc = "idle"
  /\ \A r2 \in Reqs : r2 < r => reqs[r2].pc # "idle"

At(r, route, label) == reqs[r].route = route /\ reqs[r].pc = label

Set(r, q) == reqs' = [reqs EXCEPT ![r] = q]

DbAfter(t, b, u) == [tutors |-> t, bookings |-> b, users |-> u]

NoId == [hex |-> FALSE, n |-> 0]
NoOut == <<>>

\* In-flight requests of `route`: each will ask the store for one new id
InFlight(route) ==
  Cardinality({r \in Reqs : reqs[r].route = route /\ reqs[r].pc \notin {"idle", "done"}})

\* ------------------------------------------------------------ tutor routes
TutorBodies ==
  LET full == [tutorName |-> "Ana", language |-> "Spanish", price |-> 20]
  IN {full, Merge(full, [review |-> 7]), Merge(full, [tutorName |-> ""]),
      Without(full, "tutorName"), Without(full, "language"), Without(full, "price")}

\* Variant: the review counter is taken from the body when it supplies one
NewTutorBodyReview(body) ==
  [tutorName |-> body.tutorName, language |-> body.language, price |-> body.price,
   description |-> OrElse(body, "description", ""), image |-> OrElse(body, "image", ""),
   review |-> IF Has(body, "review") THEN body.review ELSE 0]

\* const newTutor = { tutorName, language, price: Number(price), ... review: 0 }
\* (the bodies in use carry price as a number, which Number() returns as is)
NewTutor(body) ==
  [tutorName |-> body.tutorName, language |-> body.language, price |-> body.price,
   description |-> OrElse(body, "description", ""), image |-> OrElse(body, "image", ""),
   review |-> 0]

\* if (!tutorName || !language || price == null)
TutorFieldsMissing(body) ==
  \/ ~Truthy(body, "tutorName")
  \/ ~Truthy(body, "language")
  \/ ~Has(body, "price")

\* The route of the older route set (src/unnamed/part_000) that src/index.js
\* redefines
OlderPostTutors == "POST /tutors (part_000)"

\* In-flight requests that will ask the store for a new tutor id
TutorInserts == InFlight("POST /tutors") + InFlight(OlderPostTutors)

\* app.post('/tutors')
PostTutors(r) ==
  \/ /\ CanStart(r)
     /\ nextId.tutors + TutorInserts < MaxTutors
     /\ \E body \in TutorBodies :
          LET q == Begin(r, "POST /tutors", NoId, "", body) IN
          IF TutorFieldsMissing(body)
          THEN Set(r, Send(q, 400, NoOut, Db))
          ELSE Set(r, Await([q EXCEPT !.loc = NewTutor(body)], "insertOne"))
     /\ UNCHANGED store
  \/ /\ At(r, "POST /tutors", "insertOne")
     /\ LET id == nextId.tutors + 1
            t == InsertOne(tutorCollection, id, reqs[r].loc) IN
          /\ tutorCollection' = t
          /\ nextId' = [nextId EXCEPT !.tutors = id]
          /\ Set(r, Send(reqs[r], 201, [insertedId |-> id],
                         DbAfter(t, bookingCollection, userCollection)))
     /\ UNCHANGED <<bookingCollection, userCollection>>

\* const tutorData = { ...req.body, review: 0 };
tutorData(body) == Merge(body, [review |-> 0])

\* app.post('/tutors') of the older route set: the body is stored as sent,
\* unvalidated, with review set to 0
OlderPostTutorsHandler(r) ==
  \/ /\ CanStart(r)
     /\ nextId.tutors + TutorInserts < MaxTutors
     /\ \E body \in TutorBodies :
          Set(r, Await([Begin(r, OlderPostTutors, NoId, "", body)
                          EXCEPT !.loc = tutorData(body)], "insertOne"))
     /\ UNCHANGED store
  \/ /\ At(r, OlderPostTutors, "insertOne")
     /\ LET id == nextId.tutors + 1
            t == InsertOne(tutorCollection, id, reqs[r].loc) IN
          /\ tutorCollection' = t
          /\ nextId' = [nextId EXCEPT !.tutors = id]
          /\ Set(r, Send(reqs[r], 201, [insertedId |-> id],
                         DbAfter(t, bookingCollection, userCollection)))
     /\ UNCHANGED <<bookingCollection, userCollection>>

\* app.get('/tutors')
GetTutors(r) ==
  \/ /\ CanStart(r)
     /\ Set(r, Await(Begin(r, "GET /tutors", NoId, "", <<>>), "find"))
     /\ UNCHANGED store
  \/ /\ At(r, "GET /tutors", "find")
     /\ Set(r, Send(reqs[r], 200, FindAll(tutorCollection), Db))
     /\ UNCHANGED store

\* app.get('/tutors/:id')
GetTutorById(r) ==
  \/ /\ CanStart(r)
     /\ \E id \in IdStrings(MaxTutors) :
          LET q == Begin(r, "GET /tutors/:id", id, "", <<>>) IN
          IF ~ObjectIdIsValid(id)
          THEN Set(r, Send(q, 400, NoOut, Db))
          ELSE Set(r, Await(q, "findOne"))
     /\ UNCHANGED store
  \/ /\ At(r, "GET /tutors/:id", "findOne")
     /\ LET id == NewObjectId(reqs[r].id).n IN
          IF id \notin DOMAIN tutorCollection
          THEN Set(r, Send(reqs[r], 404, NoOut, Db))
          ELSE Set(r, Send(reqs[r], 200, Doc(tutorCollection, id), Db))
     /\ UNCHANGED store

\* Bodies of PATCH /tutors/:id: any fields, applied with $set
TutorPatches == {[tutorName |-> "Bo"], [review |-> 0]}

\* app.patch('/tutors/:id')
PatchTutor(r) ==
  \/ /\ CanStart(r)
     /\ \E id \in IdStrings(MaxTutors), body \in TutorPatches :
          LET q == Begin(r, "PATCH /tutors/:id", id, "", body) IN
          IF ~ObjectIdIsValid(id)
          THEN Set(r, Send(q, 400, NoOut, Db))
          ELSE Set(r, Await(q, "updateOne"))
     /\ UNCHANGED store
  \/ /\ At(r, "PATCH /tutors/:id", "updateOne")
     /\ LET id == NewObjectId(reqs[r].id).n
            t == UpdateOneSet(tutorCollection, id, reqs[r].body) IN
          /\ tutorCollection' = t
          /\ IF MatchedCount(tutorCollection, id) = 0
             THEN Set(r, Send(reqs[r], 404, NoOut, Db))
             ELSE Set(r, Send(reqs[r], 200, NoOut,
                              DbAfter(t, bookingCollection, userCollection)))
     /\ UNCHANGED <<bookingCollection, userCollection, nextId>>

\* app.delete('/tutors/:id')
DeleteTutor(r) ==
  \/ /\ CanStart(r)
     /\ \E id \in IdStrings(MaxTutors) :
          LET q == Begin(r, "DELETE /tutors/:id", id, "", <<>>) IN
          IF ~ObjectIdIsValid(id)
          THEN Set(r, Send(q, 400, NoOut, Db))
          ELSE Set(r, Await(q, "deleteOne"))
     /\ UNCHANGED store
  \/ /\ At(r, "DELETE /tutors/:id", "deleteOne")
     /\ LET id == NewObjectId(reqs[r].id).n
            t == DeleteOne(tutorCollection, id) IN
          /\ tutorCollection' = t
          /\ Set(r, Send(reqs[r], 200,
                         [deletedCount |-> MatchedCount(tutorCollection, id)],
                         DbAfter(t, bookingCollection, userCollection)))
     /\ UNCHANGED <<bookingCollection, userCollection, nextId>>

\* app.patch('/tutors/review/:id')
PatchTutorReview(r) ==
  \/ /\ CanStart(r)
     /\ \E id \in IdStrings(MaxTutors) :
          LET q == Begin(r, "PATCH /tutors/review/:id", id, "", <<>>) IN
          IF ~ObjectIdIsValid(id)
          THEN Set(r, Send(q, 400, NoOut, Db))
          ELSE Set(r, Await(q, "updateOne"))
     /\ UNCHANGED store
  \/ /\ At(r, "PATCH /tutors/review/:id", "updateOne")
     /\ LET key == NewObjectId(reqs[r].id)
            t == UpdateOneIncReview(tutorCollection, key) IN
          /\ tutorCollection' = t
          /\ IF MatchedCount(tutorCollection, key.n) = 0
             THEN Set(r, Send(reqs[r], 404, NoOut, Db))
             ELSE Set(r, Send(reqs[r], 200, NoOut,
                              DbAfter(t, bookingCollection, userCollection)))
     /\ UNCHANGED <<bookingCollection, userCollection, nextId>>

\* ---------------------------------------------------------- booking routes
BookingBodies ==
  LET full(t, e) == [tutorId |-> t, userEmail |-> e, date |-> "2025-01-01"]
      one == full([hex |-> TRUE, n |-> 1], "a@x")
  IN {full(t, e) : t \in IdStrings(MaxTutors), e \in Emails}
       \cup {Without(one, "tutorId"), Without(one, "userEmail"), Without(one, "date"),
             Merge(one, [userEmail |-> ""])}

\* if (!tutorId || !userEmail || !date)
BookingFieldsMissing(body) ==
  \/ ~Has(body, "tutorId")
  \/ ~Truthy(body, "userEmail")
  \/ ~Truthy(body, "date")

\* const booking = { tutorId: new ObjectId(tutorId), userEmail, bookedAt: date,
\*                   reviewed: false }
NewBooking(body) ==
  [tutorId |-> NewObjectId(body.tutorId), userEmail |-> body.userEmail,
   bookedAt |-> body.date, reviewed |-> FALSE]

\* app.post('/bookings')
PostBookings(r) ==
  \/ /\ CanStart(r)
     /\ nextId.bookings + InFlight("POST /bookings") < MaxBookings
     /\ \E body \in BookingBodies :
          LET q == Begin(r, "POST /bookings", NoId, "", body) IN
          IF BookingFieldsMissing(body)
          THEN Set(r, Send(q, 400, NoOut, Db))
          ELSE IF ~ObjectIdIsValid(body.tutorId)
          THEN Set(r, Send(q, 400, NoOut, Db))
          ELSE Set(r, Await([q EXCEPT !.loc = NewBooking(body)], "insertOne"))
     /\ UNCHANGED store
  \/ /\ At(r, "POST /bookings", "insertOne")
     /\ LET id == nextId.bookings + 1
            b == InsertOne(bookingCollection, id, reqs[r].loc) IN
          /\ bookingCollection' = b
          /\ nextId' = [nextId EXCEPT !.bookings = id]
          /\ Set(r, Send(reqs[r], 201, [insertedId |-> id],
                         DbAfter(tutorCollection, b, userCollection)))
     /\ UNCHANGED <<tutorCollection, userCollection>>

\* { $match: { userEmail: email } }
Match(bookings, email) == {d \in bookings : d.userEmail = email}

\* { $lookup: { from: "tutors", localField: "tutorId", foreignField: "_id",
\*              as: "tutor" } }: each booking with the set of tutors it joins
Lookup(docs, tutors) ==
  {Merge(d, [tutor |-> {t \in FindAll(tutors) :
                          d.tutorId.oid /\ t._id = d.tutorId.n}]) : d \in docs}

\* Variant: $unwind with preserveNullAndEmptyArrays: a booking that joins no tutor is kept
UnwindPreserving(docs) ==
  UNION {{Merge(d, [tutor |-> t]) : t \in d.tutor} : d \in docs} \cup
    {Merge(d, [tutor |-> [tutorName |-> "", language |-> "", price |-> 0, image |-> ""]])
       : d \in {x \in docs : x.tutor = {}}}

\* { $unwind: "$tutor" }: one document per joined tutor, none for an empty join
Unwind(docs) ==
  UNION {{Merge(d, [tutor |-> t]) : t \in d.tutor} : d \in docs}

\* { $project: { _id, tutorId, userEmail, bookedAt, reviewed,
\*               tutorName: "$tutor.tutorName", language: ..., price: ..., image: ... } }
Project(docs) ==
  {[_id |-> d._id, tutorId |-> d.tutorId, userEmail |-> d.userEmail,
    bookedAt |-> d.bookedAt, reviewed |-> d.reviewed,
    tutorName |-> d.tutor.tutorName, language |-> d.tutor.language,
    price |-> d.tutor.price, image |-> d.tutor.image] : d \in docs}

\* bookingCollection.aggregate([...]).toArray()
Aggregate(bookings, tutors, email) ==
  Project(Unwind(Lookup(Match(FindAll(bookings), email), tutors)))

\* Path values of GET /bookings/:email: the emails in use and one nobody has
EmailParams == Emails \cup {"c@x"}

\* app.get('/bookings/:email')
GetBookingsByEmail(r) ==
  \/ /\ CanStart(r)
     /\ \E email \in EmailParams :
          Set(r, Await(Begin(r, "GET /bookings/:email", NoId, email, <<>>), "aggregate"))
     /\ UNCHANGED store
  \/ /\ At(r, "GET /bookings/:email", "aggregate")
     /\ Set(r, Send(reqs[r], 200,
                    Aggregate(bookingCollection, tutorCollection, reqs[r].email), Db))
     /\ UNCHANGED store

\* Variant: the reviewed guard never fires
AlreadyReviewedNever(booking) == FALSE

\* if (booking.reviewed) return res.status(400)
AlreadyReviewed(booking) == booking.reviewed

\* app.patch('/bookings/reviewed/:id')
PatchBookingReviewed(r) ==
  \/ /\ CanStart(r)
     /\ \E id \in IdStrings(MaxBookings) :
          LET q == Begin(r, "PATCH /bookings/reviewed/:id", id, "", <<>>) IN
          IF ~ObjectIdIsValid(id)
          THEN Set(r, Send(q, 400, NoOut, Db))
          ELSE Set(r, Await(q, "findOne"))
     /\ UNCHANGED store
  \/ /\ At(r, "PATCH /bookings/reviewed/:id", "findOne")
     /\ LET id == NewObjectId(reqs[r].id).n IN
          IF id \notin DOMAIN bookingCollection
          THEN Set(r, Send(reqs[r], 404, NoOut, Db))
          ELSE IF AlreadyReviewed(bookingCollection[id])
          THEN Set(r, Send(reqs[r], 400, NoOut, Db))
          ELSE Set(r, Await([reqs[r] EXCEPT !.loc = bookingCollection[id]], "setReviewed"))
     /\ UNCHANGED store
  \/ /\ At(r, "PATCH /bookings/reviewed/:id", "setReviewed")
     /\ bookingCollection' =
          UpdateOneSet(bookingCollection, NewObjectId(reqs[r].id).n, [reviewed |-> TRUE])
     /\ Set(r, Await(reqs[r], "incReview"))
     /\ UNCHANGED <<tutorCollection, userCollection, nextId>>
  \/ /\ At(r, "PATCH /bookings/reviewed/:id", "incReview")
     /\ LET key == reqs[r].loc.tutorId
            t == UpdateOneIncReview(tutorCollection, key) IN
          /\ tutorCollection' = t
          /\ Set(r, Send([reqs[r] EXCEPT !.incd = IF t = tutorCollection THEN 0 ELSE 1],
                         200, NoOut, DbAfter(t, bookingCollection, userCollection)))
     /\ UNCHANGED <<bookingCollection, userCollection, nextId>>

\* Bodies of PATCH /bookings/:id: any fields, applied with $set
BookingPatches ==
  {[reviewed |-> FALSE], [userEmail |-> "b@x"], [tutorId |-> RawString(2)]}

\* app.patch('/bookings/:id')
PatchBooking(r) ==
  \/ /\ CanStart(r)
     /\ \E id \in IdStrings(MaxBookings), body \in BookingPatches :
          LET q == Begin(r, "PATCH /bookings/:id", id, "", body) IN
          IF ~ObjectIdIsValid(id)
          THEN Set(r, Send(q, 400, NoOut, Db))
          ELSE Set(r, Await(q, "updateOne"))
     /\ UNCHANGED store
  \/ /\ At(r, "PATCH /bookings/:id", "updateOne")
     /\ LET id == NewObjectId(reqs[r].id).n
            b == UpdateOneSet(bookingCollection, id, reqs[r].body) IN
          /\ bookingCollection' = b
          /\ IF MatchedCount(bookingCollection, id) = 0
             THEN Set(r, Send(reqs[r], 404, NoOut, Db))
             ELSE Set(r, Send(reqs[r], 200, NoOut,
                              DbAfter(tutorCollection, b, userCollection)))
     /\ UNCHANGED <<tutorCollection, userCollection, nextId>>

\* app.delete('/bookings/:id')
DeleteBooking(r) ==
  \/ /\ CanStart(r)
     /\ \E id \in IdStrings(MaxBookings) :
          LET q == Begin(r, "DELETE /bookings/:id", id, "", <<>>) IN
          IF ~ObjectIdIsValid(id)
          THEN Set(r, Send(q, 400, NoOut, Db))
          ELSE Set(r, Await(q, "deleteOne"))
     /\ UNCHANGED store
  \/ /\ At(r, "DELETE /bookings/:id", "deleteOne")
     /\ LET id == NewObjectId(reqs[r].id).n
            b == DeleteOne(bookingCollection, id) IN
          /\ bookingCollection' = b
          /\ IF MatchedCount(bookingCollection, id) = 0
             THEN Set(r, Send(reqs[r], 404, NoOut, Db))
             ELSE Set(r, Send(reqs[r], 200, NoOut,
                              DbAfter(tutorCollection, b, userCollection)))
     /\ UNCHANGED <<tutorCollection, userCollection, nextId>>

\* ------------------------------------------------------------- user routes
UserBodies ==
  LET full(e) == [name |-> "Kim", email |-> e]
  IN {full(e) : e \in Emails}
       \cup {Merge(full(e), [role |-> "Admin"]) : e \in Emails}
       \cup {Without(full("a@x"), "name"), Without(full("a@x"), "email")}

\* { name, email, role: (role || 'user').toLowerCase() }
NewUser(body) ==
  [name |-> body.name, email |-> body.email,
   role |-> ToLowerCase(OrElse(body, "role", "user"))]

\* userCollection.findOne({ email })
FindOneByEmail(coll, email) == {Doc(coll, u) : u \in {x \in DOMAIN coll : coll[x].email = email}}

\* Variant: the lookup's result is ignored
UserExistsNever(existing) == FALSE

\* if (existing) return res.status(409)
UserExists(existing) == existing # {}

\* app.post('/users')
PostUsers(r) ==
  \/ /\ CanStart(r)
     /\ nextId.users + InFlight("POST /users") < MaxUsers
     /\ \E body \in UserBodies :
          LET q == Begin(r, "POST /users", NoId, "", body) IN
          IF ~Truthy(body, "name") \/ ~Truthy(body, "email")
          THEN Set(r, Send(q, 400, NoOut, Db))
          ELSE Set(r, Await(q, "findOne"))
     /\ UNCHANGED store
  \/ /\ At(r, "POST /users", "findOne")
     /\ IF UserExists(FindOneByEmail(userCollection, reqs[r].body.email))
        THEN Set(r, Send(reqs[r], 409, NoOut, Db))
        ELSE Set(r, Await([reqs[r] EXCEPT !.loc = NewUser(reqs[r].body)], "insertOne"))
     /\ UNCHANGED store
  \/ /\ At(r, "POST /users", "insertOne")
     /\ IF DuplicateKey(userCollection, reqs[r].loc.email)
        THEN /\ Set(r, Send(Catch(reqs[r], "duplicate key"), 500, NoOut, Db))
             /\ UNCHANGED store
        ELSE LET id == nextId.users + 1
                 u == InsertOne(userCollection, id, reqs[r].loc) IN
               /\ userCollection' = u
               /\ nextId' = [nextId EXCEPT !.users = id]
               /\ Set(r, Send(reqs[r], 201, [insertedId |-> id],
                              DbAfter(tutorCollection, bookingCollection, u)))
               /\ UNCHANGED <<tutorCollection, bookingCollection>>

\* app.get('/users')
GetUsers(r) ==
  \/ /\ CanStart(r)
     /\ Set(r, Await(Begin(r, "GET /users", NoId, "", <<>>), "find"))
     /\ UNCHANGED store
  \/ /\ At(r, "GET /users", "find")
     /\ Set(r, Send(reqs[r], 200, FindAll(userCollection), Db))
     /\ UNCHANGED store

\* app.get('/users/:email')
GetUserByEmail(r) ==
  \/ /\ CanStart(r)
     /\ \E email \in EmailParams :
          Set(r, Await(Begin(r, "GET /users/:email", NoId, email, <<>>), "findOne"))
     /\ UNCHANGED store
  \/ /\ At(r, "GET /users/:email", "findOne")
     /\ LET user == FindOneByEmail(userCollection, reqs[r].email) IN
          IF user = {}
          THEN Set(r, Send(reqs[r], 404, NoOut, Db))
          ELSE Set(r, Send(reqs[r], 200, user, Db))
     /\ UNCHANGED store

\* Bodies of PATCH /users/:id
RoleBodies == {[role |-> "Admin"], [name |-> "Kim"]}

\* app.patch('/users/:id')
PatchUser(r) ==
  \/ /\ CanStart(r)
     /\ \E id \in IdStrings(MaxUsers), body \in RoleBodies :
          LET q == Begin(r, "PATCH /users/:id", id, "", body) IN
          IF ~ObjectIdIsValid(id)
          THEN Set(r, Send(q, 400, NoOut, Db))
          ELSE IF ~Truthy(body, "role")
          THEN Set(r, Send(q, 400, NoOut, Db))
          ELSE Set(r, Await(q, "updateOne"))
     /\ UNCHANGED store
  \/ /\ At(r, "PATCH /users/:id", "updateOne")
     /\ LET id == NewObjectId(reqs[r].id).n
            u == UpdateOneSet(userCollection, id, [role |-> ToLowerCase(reqs[r].body.role)]) IN
          /\ userCollection' = u
          /\ Set(r, Send(reqs[r], 200,
                         [modifiedCount |-> IF u = userCollection THEN 0 ELSE 1],
                         DbAfter(tutorCollection, bookingCollection, u)))
     /\ UNCHANGED <<tutorCollection, bookingCollection, nextId>>

\* app.delete('/users/:id')
DeleteUser(r) ==
  \/ /\ CanStart(r)
     /\ \E id \in IdStrings(MaxUsers) :
          LET q == Begin(r, "DELETE /users/:id", id, "", <<>>) IN
          IF ~ObjectIdIsValid(id)
          THEN Set(r, Send(q, 400, NoOut, Db))
          ELSE Set(r, Await(q, "deleteOne"))
     /\ UNCHANGED store
  \/ /\ At(r, "DELETE /users/:id", "deleteOne")
     /\ LET id == NewObjectId(reqs[r].id).n
            u == DeleteOne(userCollection, id) IN
          /\ userCollection' = u
          /\ Set(r, Send(reqs[r], 200,
                         [deletedCount |-> MatchedCount(userCollection, id)],
                         DbAfter(tutorCollection, bookingCollection, u)))
     /\ UNCHANGED <<tutorCollection, bookingCollection, nextId>>

\* ------------------------------------------------- dashboard, health, static
\* Variant: the filter { reviewed: false } is dropped
CountUnfiltered(coll) == Cardinality(DOMAIN coll)

\* collection.countDocuments(), and countDocuments({ reviewed: false })
CountDocuments(coll) == Cardinality(DOMAIN coll)
CountPending(coll) == Cardinality({b \in DOMAIN coll : ~coll[b].reviewed})

StatNames == {"totalTutors", "totalBookings", "totalUsers", "pendingReviews"}

\* One of the four counts of Promise.all, evaluated when the store runs it
StatCount(k) ==
  CASE k = "totalTutors" -> CountDocuments(tutorCollection)
    [] k = "totalBookings" -> CountDocuments(bookingCollection)
    [] k = "totalUsers" -> CountDocuments(userCollection)
    [] k = "pendingReviews" -> CountPending(bookingCollection)

\* app.get('/dashboard/stats'): the four counts are issued together and the
\* handler resumes when the last of them has been answered
DashboardStats(r) ==
  \/ /\ CanStart(r)
     /\ Set(r, [Begin(r, "GET /dashboard/stats", NoId, "", <<>>)
                  EXCEPT !.pc = "counts", !.calls = Cardinality(StatNames)])
     /\ UNCHANGED store
  \/ /\ At(r, "GET /dashboard/stats", "counts")
     /\ \E k \in StatNames \ DOMAIN reqs[r].loc :
          LET got == Merge(reqs[r].loc, [x \in {k} |-> StatCount(k)]) IN
          IF DOMAIN got = StatNames
          THEN Set(r, Send([reqs[r] EXCEPT !.loc = got], 200, got, Db))
          ELSE Set(r, [reqs[r] EXCEPT !.loc = got])
     /\ UNCHANGED store

OlderDashboardStats == "GET /dashboard/stats (part_000)"

\* app.get('/dashboard/stats') of the older route set: three counts, each
\* awaited before the next is issued
OlderDashboardStatsHandler(r) ==
  \/ /\ CanStart(r)
     /\ Set(r, Await(Begin(r, OlderDashboardStats, NoId, "", <<>>), "totalTutors"))
     /\ UNCHANGED store
  \/ /\ At(r, OlderDashboardStats, "totalTutors")
     /\ Set(r, Await([reqs[r] EXCEPT
                        !.loc = [totalTutors |-> CountDocuments(tutorCollection)]],
                     "totalBookings"))
     /\ UNCHANGED store
  \/ /\ At(r, OlderDashboardStats, "totalBookings")
     /\ Set(r, Await([reqs[r] EXCEPT
                        !.loc = Merge(@, [totalBookings |->
                                            CountDocuments(bookingCollection)])],
                     "pendingReviews"))
     /\ UNCHANGED store
  \/ /\ At(r, OlderDashboardStats, "pendingReviews")
     /\ LET got == Merge(reqs[r].loc,
                         [pendingReviews |-> CountPending(bookingCollection)]) IN
          Set(r, Send([reqs[r] EXCEPT !.loc = got], 200, got, Db))
     /\ UNCHANGED store

\* app.get('/health')
Health(r) ==
  \/ /\ CanStart(r)
     /\ Set(r, Await(Begin(r, "GET /health", NoId, "", <<>>), "ping"))
     /\ UNCHANGED store
  \/ /\ At(r, "GET /health", "ping")
     /\ Set(r, Send(reqs[r], 200, [ok |-> TRUE], Db))
     /\ UNCHANGED store

languageCategories ==
  <<"english", "spanish", "french", "arabic", "hindi", "chinese", "german",
    "japanese", "russian", "bengali", "italian", "korean">>

\* app.get('/categories'): no storage call
Categories(r) ==
  /\ CanStart(r)
  /\ Set(r, Send(Begin(r, "GET /categories", NoId, "", <<>>), 200, languageCategories, Db))
  /\ UNCHANGED store

\* ------------------------------------------------------------ storage errors
\* Variant: a catch block that issues the failed call again
StorageFailureRetry(r) ==
  /\ reqs[r].pc \notin {"idle", "done"}
  /\ reqs[r].calls < 4
  /\ Set(r, [Catch(reqs[r], "fault") EXCEPT !.calls = @ + 1])
  /\ UNCHANGED store

\* A storage call throws: the store is unchanged and the handler's catch block
\* answers 500
StorageFailure(r) ==
  /\ reqs[r].pc \notin {"idle", "done"}
  /\ Set(r, Send(Catch(reqs[r], "fault"), 500, NoOut, Db))
  /\ UNCHANGED store

\* ------------------------------------------------------------ specification
SeedTutor(name) ==
  [tutorName |-> name, language |-> "Spanish", price |-> 20, description |-> "",
   image |-> "", review |-> 0]

SeedBooking(t, reviewed) ==
  [tutorId |-> NewObjectId([hex |-> TRUE, n |-> t]), userEmail |-> "a@x",
   bookedAt |-> "2025-01-01", reviewed |-> reviewed]

SeedUser == [name |-> "Kim", email |-> "a@x", role |-> "user"]

\* The store when the server starts serving: two tutors were added (the second
\* may have been deleted since), each has a booking, and one user may have
\* registered; the unique index on users.email exists.
Init ==
  /\ tutorCollection \in {(1 :> SeedTutor("Ana")) @@ (2 :> SeedTutor("Bo")),
                          (1 :> SeedTutor("Ana"))}
  /\ bookingCollection \in
       {(1 :> SeedBooking(1, rv)) @@ (2 :> SeedBooking(2, FALSE)) : rv \in BOOLEAN}
  /\ userCollection \in {<<>>, (1 :> SeedUser)}
  /\ nextId = [tutors |-> 2, bookings |-> 2, users |-> Cardinality(DOMAIN userCollection)]
  /\ reqs = [r \in Reqs |-> Idle]

Next ==
  \E r \in 1..MaxReqs :
    \/ PostTutors(r) \/ GetTutors(r) \/ GetTutorById(r) \/ PatchTutor(r)
    \/ DeleteTutor(r) \/ PatchTutorReview(r)
    \/ PostBookings(r) \/ GetBookingsByEmail(r) \/ PatchBookingReviewed(r)
    \/ PatchBooking(r) \/ DeleteBooking(r)
    \/ PostUsers(r) \/ GetUsers(r) \/ GetUserByEmail(r) \/ PatchUser(r)
    \/ DeleteUser(r)
    \/ DashboardStats(r) \/ Health(r) \/ Categories(r)
    \/ StorageFailure(r)

Spec == Init /\ [][Next]_vars

\* The booking-review workflow next to the generic booking update
NextReview ==
  \E r \in 1..MaxReviewReqs :
    \/ PatchBookingReviewed(r) \/ PatchBooking(r) \/ StorageFailure(r)

\* The store for the review workflow: both tutors present, nobody registered
InitReview ==
  /\ Init
  /\ DOMAIN tutorCollection = {1, 2}
  /\ userCollection = <<>>

SpecReview == InitReview /\ [][NextReview]_vars

\* The user routes alone: only they touch the users collection
NextUsers ==
  \E r \in 1..MaxUserReqs :
    \/ PostUsers(r) \/ GetUsers(r) \/ GetUserByEmail(r) \/ PatchUser(r)
    \/ DeleteUser(r) \/ StorageFailure(r)

\* The store for the user routes: tutors and bookings fixed, users as in Init
InitUsers ==
  /\ Init
  /\ DOMAIN tutorCollection = {1, 2}
  /\ ~bookingCollection[1].reviewed

SpecUsers == InitUsers /\ [][NextUsers]_vars

\* Both definitions of POST /tutors next to the routes that read, delete and
\* count reviews of a tutor
NextTutors ==
  \E r \in 1..MaxTutorReqs :
    \/ PostTutors(r) \/ OlderPostTutorsHandler(r) \/ GetTutorById(r)
    \/ DeleteTutor(r) \/ PatchTutorReview(r) \/ StorageFailure(r)

\* The store for the tutor routes: both tutors present, bookings fixed, nobody
\* registered
InitTutors ==
  /\ Init
  /\ DOMAIN tutorCollection = {1, 2}
  /\ ~bookingCollection[1].reviewed
  /\ userCollection = <<>>

SpecTutors == InitTutors /\ [][NextTutors]_vars

\* Both definitions of GET /dashboard/stats next to the routes that insert,
\* delete and review bookings, the store answering every call
NextStats ==
  \E r \in 1..MaxStatReqs :
    \/ DashboardStats(r) \/ OlderDashboardStatsHandler(r)
    \/ PostBookings(r) \/ DeleteBooking(r) \/ PatchBookingReviewed(r)

\* The store for the dashboard: both tutors present, their bookings
\* unreviewed, nobody registered
InitStats ==
  /\ Init
  /\ DOMAIN tutorCollection = {1, 2}
  /\ ~bookingCollection[1].reviewed
  /\ userCollection = <<>>

SpecStats == InitStats /\ [][NextStats]_vars

\* ------------------------------------------------------------------ claims
Review == "PATCH /bookings/reviewed/:id"

Started(r) == reqs[r].pc # "idle"
Finished(r) == reqs[r].pc = "done"

\* Request r ran with no other request in flight at any time
Solo(r) ==
  /\ reqs[r].doneBefore = 1..(r - 1)
  /\ (r + 1 \in Reqs /\ Started(r + 1)) => r \in reqs[r + 1].doneBefore

\* r2 is the request served right after r1, neither overlapping anything, and
\* the store answered every call of both
Consecutive(r1, r2) ==
  /\ r2 = r1 + 1
  /\ Finished(r1) /\ Finished(r2)
  /\ Solo(r1) /\ Solo(r2)
  /\ reqs[r1].err # "fault" /\ reqs[r2].err # "fault"

\* The tutor document booking b refers to in collections (bs, ts), if any
Resolves(bs, ts, b) == bs[b].tutorId.oid /\ bs[b].tutorId.n \in DOMAIN ts

\* Two PATCH /bookings/reviewed/:id in a row on a booking that started
\* unreviewed with its tutor present
ReviewedTwice(r1, r2) ==
  /\ Consecutive(r1, r2)
  /\ reqs[r1].route = Review /\ reqs[r2].route = Review
  /\ reqs[r1].id.hex /\ reqs[r2].id = reqs[r1].id
  /\ reqs[r1].id.n \in DOMAIN reqs[r1].pre.bookings
  /\ ~reqs[r1].pre.bookings[reqs[r1].id.n].reviewed
  /\ Resolves(reqs[r1].pre.bookings, reqs[r1].pre.tutors, reqs[r1].id.n)

\* C1: on an unreviewed booking whose tutor exists, with nothing running in
\* between, the first PATCH /bookings/reviewed/:id answers 200 and raises the
\* tutor's review counter by exactly 1; the second answers 400 and leaves the
\* tutors and the booking as they were.
C1_ReviewTwice ==
  \A r1, r2 \in Reqs :
    ReviewedTwice(r1, r2) =>
      LET b == reqs[r1].id.n
          t == reqs[r1].pre.bookings[b].tutorId.n IN
      /\ reqs[r1].status = 200
      /\ reqs[r1].post.tutors[t].review = reqs[r1].pre.tutors[t].review + 1
      /\ reqs[r1].post.tutors = [reqs[r1].pre.tutors EXCEPT ![t].review = @ + 1]
      /\ reqs[r2].status = 400
      /\ reqs[r2].post.tutors = reqs[r1].post.tutors
      /\ reqs[r2].post.bookings = reqs[r1].post.bookings

C1_Witness ==
  \E r1, r2 \in Reqs : ReviewedTwice(r1, r2) /\ reqs[r2].status = 400

\* The 200 answers of PATCH /bookings/reviewed/:id on booking b, and those of
\* them that incremented a tutor
Reviewers(b) ==
  {r \in Reqs : reqs[r].route = Review /\ reqs[r].id.hex /\ reqs[r].id.n = b
                /\ reqs[r].status = 200}

\* C2: whatever the interleaving of PATCH /bookings/reviewed/:id requests on a
\* booking, at most one of them answers 200 and the tutor's counter is
\* incremented at most once for that booking.
C2_ReviewedOnce ==
  (\A r \in Reqs : Started(r) => reqs[r].route = Review) =>
    \A b \in 1..MaxBookings :
      /\ Cardinality(Reviewers(b)) <= 1
      /\ Cardinality({r \in Reviewers(b) : reqs[r].incd = 1}) <= 1

\* Two POST /users in a row with the same email, not registered before
RegisteredTwice(r1, r2) ==
  /\ Consecutive(r1, r2)
  /\ reqs[r1].route = "POST /users" /\ reqs[r2].route = "POST /users"
  /\ "name" \in DOMAIN reqs[r1].body /\ "email" \in DOMAIN reqs[r1].body
  /\ "name" \in DOMAIN reqs[r2].body /\ "email" \in DOMAIN reqs[r2].body
  /\ reqs[r1].body.email = reqs[r2].body.email
  /\ \A u \in DOMAIN reqs[r1].pre.users :
       reqs[r1].pre.users[u].email # reqs[r1].body.email

\* C3: two sequential POST /users with the same email: 201, then 409, and the
\* users collection then holds exactly one record with that email.
C3_RegisterTwice ==
  \A r1, r2 \in Reqs :
    RegisteredTwice(r1, r2) =>
      /\ reqs[r1].status = 201
      /\ reqs[r2].status = 409
      /\ Cardinality({u \in DOMAIN reqs[r2].post.users :
                        reqs[r2].post.users[u].email = reqs[r1].body.email}) = 1

C3_Witness ==
  \E r1, r2 \in Reqs : RegisteredTwice(r1, r2) /\ reqs[r2].status = 409

HalfDone(r) ==
  /\ reqs[r].route = Review
  /\ reqs[r].failed
  /\ reqs[r].calls = 3

\* C5: when the second write of PATCH /bookings/reviewed/:id fails, the answer
\* is 500, the booking stays reviewed, the tutor's counter is as it was, and
\* every later PATCH /bookings/reviewed/:id on that booking answers 400
\* without incrementing anything.
C5_HalfDoneStays ==
  \A r1 \in Reqs :
    HalfDone(r1) =>
      /\ reqs[r1].status = 500
      /\ reqs[r1].incd = 0
      /\ Solo(r1) => /\ reqs[r1].post.bookings[reqs[r1].id.n].reviewed
                     /\ reqs[r1].post.tutors = reqs[r1].pre.tutors
      /\ \A r2 \in Reqs :
           ( /\ reqs[r2].route = Review
             /\ reqs[r2].id = reqs[r1].id
             /\ r1 \in reqs[r2].doneBefore
             /\ Finished(r2) /\ ~reqs[r2].failed )
           => reqs[r2].status = 400 /\ reqs[r2].incd = 0

\* C6: a 200 of PATCH /bookings/reviewed/:id means the booking is reviewed
\* and this request incremented the review counter of the booking's tutor.
C6_OkMeansIncremented ==
  \A r \in Reqs :
    (reqs[r].route = Review /\ reqs[r].status = 200) =>
      /\ reqs[r].id.n \in DOMAIN reqs[r].post.bookings
           => reqs[r].post.bookings[reqs[r].id.n].reviewed
      /\ reqs[r].incd = 1

\* C7: a booking's reviewed flag, once true, stays true while the booking
\* exists.
C7_ReviewedOneWay ==
  [][\A b \in DOMAIN bookingCollection :
       (bookingCollection[b].reviewed /\ b \in DOMAIN bookingCollection')
         => bookingCollection'[b].reviewed]_vars

\* The bookings of `email` in bs whose tutorId is the _id of a tutor in ts
JoinedIds(bs, ts, email) ==
  {b \in DOMAIN bs : bs[b].userEmail = email /\ Resolves(bs, ts, b)}

\* A GET /bookings/:email that was answered from the store
Listed(r) == reqs[r].route = "GET /bookings/:email" /\ reqs[r].status = 200

\* C8: GET /bookings/:email returns exactly the bookings of that email whose
\* tutor exists at the time of the query, each once and with that tutor's
\* tutorName, language, price and image; a booking whose tutor is gone is
\* left out, and stays in the collection.
C8_JoinedBookings ==
  \A r \in Reqs :
    Listed(r) =>
      LET bs == reqs[r].post.bookings
          ts == reqs[r].post.tutors
          out == reqs[r].out IN
      /\ {d._id : d \in out} = JoinedIds(bs, ts, reqs[r].email)
      /\ Cardinality(out) = Cardinality(JoinedIds(bs, ts, reqs[r].email))
      /\ \A d \in out :
           LET t == ts[bs[d._id].tutorId.n] IN
           /\ d.userEmail = reqs[r].email
           /\ d.tutorId = bs[d._id].tutorId
           /\ d.tutorName = t.tutorName /\ d.language = t.language
           /\ d.price = t.price /\ d.image = t.image
      /\ Solo(r) => reqs[r].post = reqs[r].pre

\* A listing that returned a booking and left out another of the same email,
\* still stored, whose tutor was deleted, while a third email's is not listed
C8_Witness ==
  \E r \in Reqs :
    /\ Listed(r)
    /\ reqs[r].out # {}
    /\ \E b \in DOMAIN reqs[r].post.bookings :
         /\ reqs[r].post.bookings[b].userEmail = reqs[r].email
         /\ ~Resolves(reqs[r].post.bookings, reqs[r].post.tutors, b)
         /\ b \in DOMAIN bookingCollection
    /\ \E b \in DOMAIN reqs[r].post.bookings :
         reqs[r].post.bookings[b].userEmail # reqs[r].email

IdRoutes ==
  {"GET /tutors/:id", "PATCH /tutors/:id", "DELETE /tutors/:id",
   "PATCH /tutors/review/:id", "PATCH /bookings/reviewed/:id", "PATCH /bookings/:id",
   "DELETE /bookings/:id", "PATCH /users/:id", "DELETE /users/:id"}

Absent(body, f) == f \notin DOMAIN body

\* The requests the claim lists as validation errors, told from their inputs
Malformed(q) ==
  \/ q.route \in IdRoutes /\ ~q.id.hex
  \/ /\ q.route = "POST /tutors"
     /\ Absent(q.body, "tutorName") \/ Absent(q.body, "language") \/ Absent(q.body, "price")
  \/ /\ q.route = "POST /bookings"
     /\ \/ Absent(q.body, "tutorId") \/ Absent(q.body, "userEmail") \/ Absent(q.body, "date")
        \/ ~q.body.tutorId.hex
  \/ /\ q.route = "POST /users"
     /\ Absent(q.body, "name") \/ Absent(q.body, "email")
  \/ q.route = "PATCH /users/:id" /\ Absent(q.body, "role")

\* C9: a request that is a validation error is answered 400 (never 404) with
\* no storage call issued and the three collections as they were.
C9_ValidationFirst ==
  \A r \in Reqs :
    (Started(r) /\ Malformed(reqs[r])) =>
      /\ Finished(r)
      /\ reqs[r].status = 400
      /\ reqs[r].calls = 0
      /\ reqs[r].post = reqs[r].pre

\* Every kind of validation error has been answered
C9_Witness ==
  /\ \E r \in Reqs : Finished(r) /\ Malformed(reqs[r]) /\ reqs[r].route = "PATCH /users/:id"
                     /\ reqs[r].id.hex
  /\ \E r \in Reqs : Finished(r) /\ Malformed(reqs[r]) /\ reqs[r].route = "GET /tutors/:id"

\* C10: a storage failure is answered with exactly one 500, and the handler
\* then does nothing more: no further storage call, no retry.
C10_FailStop ==
  /\ [](\A r \in Reqs :
          reqs[r].failed =>
            Finished(r) /\ reqs[r].status = 500 /\ reqs[r].nresp = 1)
  /\ [][\A r \in Reqs : reqs[r].failed => reqs'[r] = reqs[r]]_vars

\* The second write of the review workflow failed, and a request served
\* afterwards has been answered
C10_Witness ==
  \E r1, r2 \in Reqs :
    /\ HalfDone(r1) /\ reqs[r1].status = 500
    /\ r1 # r2 /\ Finished(r2) /\ r1 \in reqs[r2].doneBefore

\* A POST /tutors (either definition) that answered 201
PostedTutor(r) ==
  /\ Finished(r)
  /\ reqs[r].route \in {"POST /tutors", OlderPostTutors}
  /\ reqs[r].status = 201

\* r2 is a GET /tutors/:id of the id r1 returned, served right after r1
ReadsBack(r1, r2) ==
  /\ Consecutive(r1, r2)
  /\ PostedTutor(r1)
  /\ reqs[r2].route = "GET /tutors/:id"
  /\ reqs[r2].id = [hex |-> TRUE, n |-> reqs[r1].out.insertedId]

\* C11: the tutor a successful POST /tutors stores has review = 0 whatever
\* the body holds, a review value of its own included; and a GET /tutors/:id
\* of the returned id, with no write in between, answers 200 with that tutor
\* and review = 0.
C11_StoredReviewZero ==
  /\ \A r \in Reqs :
       PostedTutor(r) =>
         LET id == reqs[r].out.insertedId IN
         /\ id \notin DOMAIN reqs[r].pre.tutors
         /\ id \in DOMAIN reqs[r].post.tutors
         /\ reqs[r].post.tutors[id].review = 0
  /\ \A r1, r2 \in Reqs :
       ReadsBack(r1, r2) =>
         /\ reqs[r2].status = 200
         /\ reqs[r2].out = Doc(reqs[r1].post.tutors, reqs[r1].out.insertedId)
         /\ reqs[r2].out.review = 0

\* A tutor posted with a review value of its own has been read back
C11_Witness ==
  \E r1, r2 \in Reqs :
    /\ ReadsBack(r1, r2)
    /\ reqs[r1].route = "POST /tutors"
    /\ Has(reqs[r1].body, "review") /\ reqs[r1].body.review # 0
    /\ reqs[r2].status = 200

\* A GET /dashboard/stats (either definition) that answered 200
Counted(r) ==
  /\ Finished(r)
  /\ reqs[r].route \in {"GET /dashboard/stats", OlderDashboardStats}
  /\ reqs[r].status = 200

=============================================================================
